---- MODULE Spec2Model ----
(***************************************************************************)
(* Model of ipguide.py: the binary prefix trie NetTree (insert / search)   *)
(* and the IPGuide database built over it (load_database, find_network,    *)
(* networks_for_asn, find_asn, find_country, get_networks).                *)
(*                                                                         *)
(* Python values are represented as follows.                               *)
(*   str          a TLA+ string; Len, SubSeq and \o act on its characters  *)
(*   None         the empty tuple <<>> (see None)                          *)
(*   tuple, list  a TLA+ sequence                                          *)
(*   dict         a function whose DOMAIN is the set of keys               *)
(*   a trie node  [child0, child1, data]: the trie is the function from    *)
(*                the bit path of every existing node ("" is the root,     *)
(*                "01" the child 1 of the child 0 of the root) to the      *)
(*                node's data slot (node[2])                               *)
(*   an address   the sequence of its 16-bit groups (IPv6, 8 groups) or of *)
(*                its octets (IPv4, 4 octets); the 128-bit integer itself  *)
(*                is never formed                                          *)
(***************************************************************************)
EXTENDS Integers, Sequences, FiniteSets, TLC

VARIABLES
    tree,       \* a stand-alone NetTree object (NetTree.tree)
    log,        \* history: the <<network, data>> pairs given to insert, in order
    database,   \* IPGuide.database
    file,       \* the rows read by the current load_database, or by the last one
                \* that opened the csv file
    frame,      \* load_database's position in the loop and its locals: [line, row, asn, i]
    pickle,     \* [use, data]: whether a pickle is kept (use_pickle), and the index
                \* held by a pickle file at least as new as the csv (Unloaded: none)
    pc,         \* load_database: "new" (never called), "loading", "loaded" (the
                \* last call returned), "raised" (the last call raised; the object
                \* is still in use), "failed" (the call made by __init__ raised:
                \* there is no object)
    loads,      \* number of load_database calls that went on to replace the index
    old,        \* history: self.database as it was when the last call began
    op,         \* name of the last call recorded
    arg,        \* its argument
    ret,        \* what it came back with
    mid         \* whether that call ran while load_database was in progress

vars == <<tree, log, database, file, frame, pickle, pc, loads, old, op, arg, ret, mid>>

None == <<>>

\* What a call comes back with: a value, None, or an exception raised.
Return(v) == [kind |-> "value", val |-> v]
ReturnNone == [kind |-> "none", val |-> None]
Raise(exc) == [kind |-> "raise", val |-> exc]

\* The data found by a walk of the trie, as the value search returns.
Found(data) == IF data = None THEN ReturnNone ELSE Return(data)

-----------------------------------------------------------------------------
(* Python str and int primitives *)

\* F applied to the value of v, v being computed once (a local variable).
Bind(v, F(_)) == CHOOSE r \in {F(x) : x \in {v}} : TRUE

Char(s, i) == SubSeq(s, i, i)

startswith(s, p) == Len(s) >= Len(p) /\ SubSeq(s, 1, Len(p)) = p

\* Index of the first occurrence of the character c in s, 0 when there is none.
Find(s, c) ==
    IF \E i \in 1..Len(s) : Char(s, i) = c
    THEN CHOOSE i \in 1..Len(s) : Char(s, i) = c /\ \A j \in 1..(i-1) : Char(s, j) # c
    ELSE 0

\* str.split(sep) for a one-character separator
RECURSIVE split(_, _)
split(s, sep) ==
    Bind(Find(s, sep), LAMBDA i :
        IF i = 0 THEN <<s>>
        ELSE <<SubSeq(s, 1, i-1)>>
             \o Bind(SubSeq(s, i+1, Len(s)), LAMBDA rest : split(rest, sep)))

HexDigits == "0123456789abcdef"

HexUpper == "0123456789ABCDEF"

IsDigit(c, base) ==
    \E v \in 1..base : Char(HexDigits, v) = c \/ Char(HexUpper, v) = c

DigitVal(c) ==
    (CHOOSE v \in 1..16 : Char(HexDigits, v) = c \/ Char(HexUpper, v) = c) - 1

IsNumeral(s, base) == Len(s) > 0 /\ \A i \in 1..Len(s) : IsDigit(Char(s, i), base)

\* The value of the first k digits of the numeral s
RECURSIVE NumeralUpTo(_, _, _)
NumeralUpTo(s, base, k) ==
    IF k = 0 THEN 0 ELSE NumeralUpTo(s, base, k-1) * base + DigitVal(Char(s, k))

NumeralVal(s, base) == NumeralUpTo(s, base, Len(s))

\* The characters int() takes for white space.  (Strings of the model are
\* ASCII: the white space and the digits of Unicode beyond it are left out.)
Whitespace == {" ", "\t", "\n", "\r", "\f", ""}

\* The string without its leading and trailing white space
RECURSIVE strip(_)
strip(s) ==
    IF Len(s) > 0 /\ Char(s, 1) \in Whitespace
    THEN Bind(SubSeq(s, 2, Len(s)), LAMBDA rest : strip(rest))
    ELSE IF Len(s) > 0 /\ Char(s, Len(s)) \in Whitespace
    THEN Bind(SubSeq(s, 1, Len(s)-1), LAMBDA rest : strip(rest))
    ELSE s

\* The text after an optional sign
IntBody(t) == IF Len(t) > 0 /\ Char(t, 1) \in {"-", "+"} THEN SubSeq(t, 2, Len(t)) ELSE t

\* Decimal digits with single underscores between them: digit (_? digit)*
IsGrouped(s) ==
    /\ Len(s) > 0
    /\ \A i \in 1..Len(s) :
          \/ IsDigit(Char(s, i), 10)
          \/ /\ Char(s, i) = "_"
             /\ 1 < i /\ i < Len(s)
             /\ IsDigit(Char(s, i-1), 10) /\ IsDigit(Char(s, i+1), 10)

\* The digits of s, the underscores left out
RECURSIVE Ungrouped(_)
Ungrouped(s) ==
    IF s = "" THEN ""
    ELSE Bind(SubSeq(s, 2, Len(s)), LAMBDA rest :
            IF Char(s, 1) = "_" THEN Ungrouped(rest) ELSE Char(s, 1) \o Ungrouped(rest))

\* int(s): surrounding white space is stripped, one sign is allowed, then
\* decimal digits, single underscores between them allowed.  [ok |-> FALSE]
\* stands for ValueError.
int(s) ==
    Bind(strip(s), LAMBDA t :
        Bind(IntBody(t), LAMBDA body :
            IF ~IsGrouped(body) THEN [ok |-> FALSE, val |-> 0]
            ELSE Bind(NumeralVal(Ungrouped(body), 10), LAMBDA n :
                    [ok |-> TRUE, val |-> IF Char(t, 1) = "-" THEN 0 - n ELSE n])))

\* str(n) and '%x' % n, for n >= 0
RECURSIVE Numeral(_, _)
Numeral(n, base) ==
    IF n < base THEN Char(HexDigits, n+1)
    ELSE Numeral(n \div base, base) \o Char(HexDigits, (n % base) + 1)

str(n) == Numeral(n, 10)

\* f"{n:0{w}b}": n in binary, zero-padded to w characters
RECURSIVE Bin(_, _)
Bin(n, w) == IF w = 0 THEN "" ELSE Bin(n \div 2, w-1) \o Char(HexDigits, (n % 2) + 1)

RECURSIVE Pow2(_)
Pow2(k) == IF k = 0 THEN 1 ELSE 2 * Pow2(k-1)

-----------------------------------------------------------------------------
(* ipaddress.ip_network(text), strict: the parsed network, or ValueError *)

ParseError == [ok |-> FALSE, version |-> 0, addr |-> <<>>, prefixlen |-> 0]

NoAddress == [ok |-> FALSE, version |-> 0, addr |-> <<>>]

\* An IPv4 address "a.b.c.d": four decimal octets of 1 to 3 digits, at most 255.
\* An octet is one to three decimal digits without a leading zero, at most 255
IsOctet(s) ==
    /\ IsNumeral(s, 10)
    /\ Len(s) <= 3
    /\ (Len(s) > 1 => Char(s, 1) # "0")
    /\ NumeralVal(s, 10) <= 255

ParseV4Address(s) ==
    Bind(split(s, "."), LAMBDA parts :
        IF Len(parts) = 4 /\ \A i \in 1..4 : IsOctet(parts[i])
        THEN [ok |-> TRUE, version |-> 4, addr |-> [i \in 1..4 |-> NumeralVal(parts[i], 10)]]
        ELSE NoAddress)

IsHextet(s) == IsNumeral(s, 16) /\ Len(s) <= 4

\* The groups of an IPv6 address from its colon-separated parts, an empty part
\* in the middle (skip) standing for the groups a "::" leaves out: hi parts
\* before it and lo parts after it are groups.
V6Skipped(parts, skip) ==
    Bind(IF parts[1] = "" THEN skip - 2 ELSE skip - 1, LAMBDA hi :
        Bind(IF parts[Len(parts)] = "" THEN Len(parts) - skip - 1 ELSE Len(parts) - skip,
             LAMBDA lo :
            IF \/ (parts[1] = "" /\ hi # 0)
               \/ (parts[Len(parts)] = "" /\ lo # 0)
               \/ 8 - (hi + lo) < 1
               \/ \E i \in 1..hi : ~IsHextet(parts[i])
               \/ \E i \in (Len(parts) - lo + 1)..Len(parts) : ~IsHextet(parts[i])
            THEN NoAddress
            ELSE [ok |-> TRUE, version |-> 6,
                  addr |-> [i \in 1..8 |->
                              IF i <= hi THEN NumeralVal(parts[i], 16)
                              ELSE IF i > 8 - lo
                              THEN NumeralVal(parts[Len(parts) - (8 - i)], 16)
                              ELSE 0]]))

V6Parts(parts) ==
    Bind({i \in 2..(Len(parts) - 1) : parts[i] = ""}, LAMBDA skips :
        IF Len(parts) > 9 \/ Cardinality(skips) > 1 THEN NoAddress
        ELSE IF skips # {} THEN V6Skipped(parts, CHOOSE i \in skips : TRUE)
        ELSE IF Len(parts) # 8 \/ \E i \in 1..8 : ~IsHextet(parts[i]) THEN NoAddress
        ELSE [ok |-> TRUE, version |-> 6, addr |-> [i \in 1..8 |-> NumeralVal(parts[i], 16)]])

\* A dotted IPv4 address as the last part is replaced by its two groups, in
\* hexadecimal.
V6Dotted(parts, v4) ==
    IF ~v4.ok THEN NoAddress
    ELSE Bind(SubSeq(parts, 1, Len(parts) - 1)
                  \o <<Numeral(v4.addr[1] * 256 + v4.addr[2], 16),
                       Numeral(v4.addr[3] * 256 + v4.addr[4], 16)>>,
              LAMBDA converted : V6Parts(converted))

\* An IPv6 address: up to eight hexadecimal groups, one "::" standing for the
\* groups left out, the last group possibly a dotted IPv4 address.
V6Groups(s) ==
    Bind(split(s, ":"), LAMBDA parts :
        IF Len(parts) < 3 THEN NoAddress
        ELSE IF Find(parts[Len(parts)], ".") > 0
        THEN Bind(ParseV4Address(parts[Len(parts)]), LAMBDA v4 : V6Dotted(parts, v4))
        ELSE V6Parts(parts))

\* IPv6Address(s): a scope id may follow the address after a "%" (it must not
\* be empty nor hold another "%"); it is no part of the address's integer.
ParseV6Address(s) ==
    Bind(split(s, "%"), LAMBDA scoped :
        IF Len(scoped) > 2 \/ (Len(scoped) = 2 /\ scoped[2] = "") THEN NoAddress
        ELSE V6Groups(scoped[1]))

\* ip_address: IPv4 is tried first, then IPv6.
ParseAddress(s) ==
    Bind(ParseV4Address(s), LAMBDA a4 : IF a4.ok THEN a4 ELSE ParseV6Address(s))

\* The bits of the address from bit k+1 on (k = prefix length) are all zero;
\* w is the width of the groups of the address.
HostBitsZero(addr, w, k) ==
    \A i \in 1..Len(addr) :
        IF k >= i * w THEN TRUE
        ELSE IF k <= (i-1) * w THEN addr[i] = 0
        ELSE addr[i] % Pow2(i * w - k) = 0

\* What stands for NetmaskValueError: no prefix length of any family.
NoPrefix == 999

\* The digits of s from its first non-zero digit on ("" when all are zero)
RECURSIVE Significant(_)
Significant(s) ==
    IF Len(s) > 0 /\ Char(s, 1) = "0"
    THEN Bind(SubSeq(s, 2, Len(s)), LAMBDA rest : Significant(rest))
    ELSE s

\* _prefix_from_prefix_string: a run of ASCII digits of any length, read as a
\* number, which must not exceed max (32 or 128).
prefix_from_prefix_string(s, max) ==
    IF ~IsNumeral(s, 10) THEN NoPrefix
    ELSE Bind(Significant(s), LAMBDA digits :
            IF Len(digits) > 3 \/ NumeralVal(digits, 10) > max THEN NoPrefix
            ELSE NumeralVal(digits, 10))

\* Bit i (1..32, from the left) of an IPv4 address
V4Bit(addr, i) == (addr[((i-1) \div 8) + 1] \div Pow2(7 - ((i-1) % 8))) % 2

\* _prefix_from_ip_string: a dotted netmask (ones then zeroes), tried first,
\* or a dotted hostmask (zeroes then ones).
prefix_from_ip_string(s) ==
    Bind(ParseV4Address(s), LAMBDA mask :
        IF ~mask.ok THEN NoPrefix
        ELSE Bind({k \in 0..32 : \A i \in 1..32 : (V4Bit(mask.addr, i) = 1) <=> (i <= k)},
                  LAMBDA netmasks :
                IF netmasks # {} THEN CHOOSE k \in netmasks : TRUE
                ELSE Bind({k \in 0..32 : \A i \in 1..32 : (V4Bit(mask.addr, i) = 0) <=> (i <= k)},
                          LAMBDA hostmasks :
                        IF hostmasks # {} THEN CHOOSE k \in hostmasks : TRUE
                        ELSE NoPrefix)))

\* _make_netmask of the text after the "/": for IPv4 a prefix length, else a
\* netmask or hostmask; for IPv6 a prefix length.
ParsePrefixLen(s, version) ==
    IF version = 6 THEN prefix_from_prefix_string(s, 128)
    ELSE Bind(prefix_from_prefix_string(s, 32), LAMBDA k :
            IF k # NoPrefix THEN k ELSE prefix_from_ip_string(s))

\* The network of address a and prefix length k (the full width when the text
\* has no "/"), refused when k is no prefix length or a host bit is set.
Network(a, k) ==
    IF k > (IF a.version = 4 THEN 32 ELSE 128) THEN ParseError
    ELSE IF ~HostBitsZero(a.addr, IF a.version = 4 THEN 8 ELSE 16, k) THEN ParseError
    ELSE [ok |-> TRUE, version |-> a.version, addr |-> a.addr, prefixlen |-> k]

\* ip_network(text): IPv4Network(text) is tried first, then IPv6Network(text);
\* ParseError stands for the ValueError raised when both refuse.  (A text whose
\* address part is an IPv4 address is no IPv6 network.)
ip_network(text) ==
    Bind(split(text, "/"), LAMBDA parts :
        IF Len(parts) > 2 THEN ParseError
        ELSE Bind(ParseAddress(parts[1]), LAMBDA a :
            IF ~a.ok THEN ParseError
            ELSE IF Len(parts) = 1 THEN Network(a, IF a.version = 4 THEN 32 ELSE 128)
            ELSE Bind(ParsePrefixLen(parts[2], a.version), LAMBDA k : Network(a, k))))

\* str(net.network_address) of an IPv4 network
V4Str(addr) == str(addr[1]) \o "." \o str(addr[2]) \o "." \o str(addr[3]) \o "." \o str(addr[4])

\* Width of the embedding of IPv4 in IPv6: the prefix length grows by 96.
MappedBits == 96

\* An embedding that leaves out the ffff group, ::a.b.c.d (not the program's).
embedCompatible(network) ==
    Bind(ip_network(network), LAMBDA net :
        IF net.ok /\ net.version = 4
        THEN ip_network("::" \o V4Str(net.addr) \o "/" \o str(net.prefixlen + MappedBits))
        ELSE net)

\* ip_network(network), an IPv4 network embedded into IPv6 as ::ffff:a.b.c.d
embed(network) ==
    Bind(ip_network(network), LAMBDA net :
        IF net.ok /\ net.version = 4
        THEN ip_network("::ffff:" \o V4Str(net.addr) \o "/" \o str(net.prefixlen + MappedBits))
        ELSE net)

\* f"{int(net.network_address):0128b}"
RECURSIVE Bits128(_, _)
Bits128(addr, i) == IF i > Len(addr) THEN "" ELSE Bin(addr[i], 16) \o Bits128(addr, i + 1)

\* f"{int(net.network_address):0128b}"[:net.prefixlen]
prefix(net) == SubSeq(Bits128(net.addr, 1), 1, net.prefixlen)

-----------------------------------------------------------------------------
(* class NetTree *)

\* NetTree.__init__: the root node alone, with nothing attached
EmptyTree == [p \in {""} |-> None]

\* `if here[2]:` -- the data slot of a node counts when it is truthy
Truthy(data) == data # None

\* The loop of NetTree.insert over the bits of the prefix, and the assignment
\* after it: every missing node of the path is created empty, then the data is
\* stored at the node reached (over whatever was there).
insertLoop(t, bits, data) ==
    [p \in DOMAIN t \cup {SubSeq(bits, 1, k) : k \in 0..Len(bits)} |->
        IF p = bits THEN data
        ELSE IF p \in DOMAIN t THEN t[p] ELSE None]

\* NetTree.insert(network, data).  Result: the tree afterwards and whether
\* ip_network raised ValueError (it does so before the tree is touched).
insert(t, network, data) ==
    Bind(embed(network), LAMBDA net :
        IF ~net.ok THEN [tree |-> t, raised |-> TRUE]
        ELSE Bind(prefix(net), LAMBDA bits :
                [tree |-> insertLoop(t, bits, data), raised |-> FALSE]))

\* The loop of NetTree.search over the bits of the prefix.  Iteration i
\* (1..Len(bits)) stands on the node at depth i-1: it remembers that node's data
\* when truthy, then goes down by bit i, or breaks when that child is missing.
\* So the nodes stood on are the existing nodes at depths 0..Len(bits)-1 of the
\* path (every ancestor of an existing node exists), the data returned is the
\* deepest truthy one among them, and the node reached by the last bit is left
\* without its data being looked at.
searchLoop(t, bits) ==
    Bind({k \in 0..(Len(bits) - 1) :
             SubSeq(bits, 1, k) \in DOMAIN t /\ Truthy(t[SubSeq(bits, 1, k)])},
         LAMBDA hits :
            IF hits = {} THEN None
            ELSE t[SubSeq(bits, 1, CHOOSE k \in hits : \A j \in hits : j <= k)])

\* A walk that creates the nodes it misses, as insert does (not the program's).
searchCreating(t, network) ==
    Bind(embed(network), LAMBDA net :
        IF ~net.ok THEN [tree |-> t, ret |-> Raise("ValueError")]
        ELSE Bind(prefix(net), LAMBDA bits :
                [tree |-> [p \in DOMAIN t \cup {SubSeq(bits, 1, k) : k \in 0..Len(bits)} |->
                              IF p \in DOMAIN t THEN t[p] ELSE None],
                 ret  |-> Bind(searchLoop(t, bits), Found)]))

\* A walk that answers with a record of its own when nothing is found (not the
\* program's).
searchDefault(t, network) ==
    Bind(embed(network), LAMBDA net :
        IF ~net.ok THEN [tree |-> t, ret |-> Raise("ValueError")]
        ELSE Bind(searchLoop(t, prefix(net)), LAMBDA data :
                [tree |-> t,
                 ret  |-> IF data = None THEN Return(<<network, 0, "*">>) ELSE Return(data)]))

\* NetTree.search(network): the tree afterwards (search assigns nothing in it)
\* and the value returned.
search(t, network) ==
    Bind(embed(network), LAMBDA net :
        IF ~net.ok THEN [tree |-> t, ret |-> Raise("ValueError")]
        ELSE Bind(prefix(net), LAMBDA bits :
                [tree |-> t, ret |-> Bind(searchLoop(t, bits), Found)]))

-----------------------------------------------------------------------------
(* A NetTree used on its own: any sequence of insert and search calls *)

MaxInserts == 3

\* Networks given to insert.  "::ffff:a00:0/104" is the IPv6 spelling of the
\* prefix 10.0.0.0/8 is embedded as; "10.1.2.3/8" has host bits set and is
\* refused by ip_network.
TreeNetworks ==
    {"10.0.0.0/8", "10.1.0.0/16", "::1/128", "::/0", "::/96", "::ffff:a00:0/104",
     "10.1.2.3/8"}

\* Addresses (and one ill-formed text) given to search.
TreeQueries == {"10.1.2.3", "8.8.8.8", "::1", "::2", "2001:db8::1", "bogus"}

\* The data of the k-th insert: records are told apart by their serial number.
TreeData(network, k) == <<network, k, "ZZ">>

\* IPGuide.__init__ line 92: self.database = None, written as an index that
\* has no trie at all (not even a root node).
Unloaded == [network |-> <<>>, asn |-> <<>>, country |-> <<>>]

\* load_database at the top of its loop (line 139), between two rows; also
\* the value of the locals while no load is in progress.
Top == [line |-> 139, row |-> <<>>, asn |-> 0, i |-> 0]

Init ==
    /\ tree = EmptyTree
    /\ log = <<>>
    /\ database = Unloaded
    /\ file = <<>>
    /\ frame = Top
    /\ pickle = [use |-> FALSE, data |-> Unloaded]
    /\ pc = "new"
    /\ loads = 0
    /\ old = Unloaded
    /\ op = "init"
    /\ arg = None
    /\ ret = ReturnNone
    /\ mid = FALSE

TreeInsert(network) ==
    /\ Len(log) < MaxInserts
    /\ \E r \in {insert(tree, network, TreeData(network, Len(log) + 1))} :
          /\ tree' = r.tree
          /\ log' = IF r.raised THEN log
                    ELSE Append(log, <<network, TreeData(network, Len(log) + 1)>>)
          /\ ret' = IF r.raised THEN Raise("ValueError") ELSE ReturnNone
    /\ op' = "insert"
    /\ arg' = network
    /\ UNCHANGED <<database, file, frame, pickle, pc, loads, old, mid>>

TreeSearch(network) ==
    /\ \E r \in {search(tree, network)} :
          /\ tree' = r.tree
          /\ ret' = r.ret
    /\ op' = "search"
    /\ arg' = network
    /\ UNCHANGED <<log, database, file, frame, pickle, pc, loads, old, mid>>

NextTree ==
    \/ \E network \in TreeNetworks : TreeInsert(network)
    \/ \E network \in TreeQueries : TreeSearch(network)

SpecTree == Init /\ [][NextTree]_vars

-----------------------------------------------------------------------------
(* class IPGuide *)

\* load_database lines 143-145
private ==
    <<"10.0.0.0/8", "127.0.0.0/8", "172.16.0.0/12", "192.168.0.0/16",
      "::1/128", "fc00::/7", "fe80::/10">>

\* dict with one key set: d[k] = v
SetItem(d, k, v) == [x \in DOMAIN d \cup {k} |-> IF x = k THEN v ELSE d[x]]

\* load_database line 147, for pnet = private[i]:
\* self.database['network'].insert(pnet, (pnet, 0, '*'))
seedInsert(db, i) ==
    [db EXCEPT !.network = insert(@, private[i], <<private[i], 0, "*">>).tree]

\* load_database lines 146-147: the loop over private, from private[i] on
RECURSIVE insertPrivate(_, _)
insertPrivate(db, i) ==
    IF i > Len(private) THEN db
    ELSE Bind(seedInsert(db, i), LAMBDA db2 : insertPrivate(db2, i + 1))

\* load_database lines 148-152: the entry of ASN 0 is assigned
seedAsn(db) ==
    [db EXCEPT !.asn = SetItem(@, 0, [name |-> "Locally routed network",
                                      country |-> "*",
                                      networks |-> private])]

\* load_database line 153: the entry of country '*' is assigned
seedCountry(db) == [db EXCEPT !.country = SetItem(@, "*", <<0>>)]

\* load_database lines 140-154: the header row.  The private ranges go into the
\* trie, and the entries of ASN 0 and of country '*' are assigned (not
\* appended to).
seed(db) == seedCountry(seedAsn(insertPrivate(db, 1)))

\* load_database lines 139-140 and 156, which write nothing to the index: the
\* row is taken, tested for the header, and the ASN of a data row is read.
\* row[0] and row[1] raise IndexError on a row too short, int() ValueError.
\* (Sequences are 1-based: row[1] is the code's row[0].)
fetch(row) ==
    IF Len(row) = 0 THEN [raised |-> TRUE, header |-> FALSE, asn |-> 0]
    ELSE IF row[1] = "network" THEN [raised |-> FALSE, header |-> TRUE, asn |-> 0]
    ELSE IF Len(row) < 2 THEN [raised |-> TRUE, header |-> FALSE, asn |-> 0]
    ELSE Bind(int(row[2]), LAMBDA asn :
            [raised |-> ~asn.ok, header |-> FALSE, asn |-> asn.val])

\* load_database line 157: insert(row[0], (row[0], asn, row[3])).  The tuple is
\* built first (IndexError on a row of fewer than 4 fields), then ip_network
\* may raise ValueError, each before the trie is changed.
rowInsert(db, row, asn) ==
    IF Len(row) < 4 THEN [db |-> db, raised |-> TRUE]
    ELSE Bind(insert(db.network, row[1], <<row[1], asn, row[4]>>), LAMBDA ins :
            [db |-> [db EXCEPT !.network = ins.tree], raised |-> ins.raised])

\* load_database lines 158-163: the entry of an ASN not seen before
asnEntry(db, row, asn) ==
    IF asn \in DOMAIN db.asn THEN db
    ELSE [db EXCEPT !.asn = SetItem(@, asn, [name |-> row[3], country |-> row[4],
                                             networks |-> <<>>])]

\* load_database line 164: database['asn'][asn]['networks'].append(row[0])
asnAppend(db, row, asn) ==
    [db EXCEPT !.asn = SetItem(@, asn, [db.asn[asn] EXCEPT !.networks = Append(@, row[1])])]

\* load_database lines 165-166: the entry of a country not seen before
countryEntry(db, row) ==
    IF row[4] \in DOMAIN db.country THEN db
    ELSE [db EXCEPT !.country = SetItem(@, row[4], <<>>)]

\* load_database line 167: database['country'][row[3]].append(asn)
countryAppend(db, row, asn) ==
    [db EXCEPT !.country = SetItem(@, row[4], Append(db.country[row[4]], asn))]

\* load_database lines 158-167: the two dictionaries, for a data row whose
\* network went into the trie.
index(db, row, asn) ==
    countryAppend(countryEntry(asnAppend(asnEntry(db, row, asn), row, asn), row), row, asn)

\* load_database lines 139-167: the body of the loop, for one row of the file.
loadRow(db, row) ==
    Bind(fetch(row), LAMBDA f :
        IF f.raised THEN [db |-> db, raised |-> TRUE]
        ELSE IF f.header THEN [db |-> seed(db), raised |-> FALSE]
        ELSE Bind(rowInsert(db, row, f.asn), LAMBDA ins :
                IF ins.raised THEN [db |-> db, raised |-> TRUE]
                ELSE [db |-> index(ins.db, row, f.asn), raised |-> FALSE]))

\* load_database lines 133-135: the fresh index self.database is set to before
\* the file is read.
EmptyIndex == [network |-> EmptyTree, asn |-> <<>>, country |-> <<>>]

\* IPGuide.find_network(network); on self.database = None the subscript raises
find_network(db, network) ==
    IF db = Unloaded THEN [db |-> db, ret |-> Raise("TypeError")]
    ELSE Bind(search(db.network, network), LAMBDA r :
            [db |-> [db EXCEPT !.network = r.tree], ret |-> r.ret])

\* IPGuide.networks_for_asn(asn)
networks_for_asn(db, asn) ==
    IF db = Unloaded THEN [db |-> db, ret |-> Raise("TypeError")]
    ELSE IF asn \notin DOMAIN db.asn THEN [db |-> db, ret |-> Return(<<>>)]
    ELSE [db |-> db, ret |-> Return(db.asn[asn].networks)]

\* IPGuide.find_asn(asn): dict.get(asn, None)
find_asn(db, asn) ==
    IF db = Unloaded THEN [db |-> db, ret |-> Raise("TypeError")]
    ELSE IF asn \in DOMAIN db.asn THEN [db |-> db, ret |-> Return(db.asn[asn])]
    ELSE [db |-> db, ret |-> ReturnNone]

\* IPGuide.find_country(country): dict.get(country, [])
find_country(db, country) ==
    IF db = Unloaded THEN [db |-> db, ret |-> Raise("TypeError")]
    ELSE IF country \in DOMAIN db.country THEN [db |-> db, ret |-> Return(db.country[country])]
    ELSE [db |-> db, ret |-> Return(<<>>)]

\* get_networks lines 203-208: the loop from item i on, res being the list
\* built so far.  [ok |-> FALSE] stands for an exception: int() raising
\* ValueError, or the subscript [1] raising IndexError.  (Sequences are
\* 1-based: parts[2] is the code's s.split(':')[1].)
RECURSIVE expand(_, _, _, _)
expand(db, spec, i, res) ==
    IF i > Len(spec) THEN [ok |-> TRUE, res |-> res]
    ELSE IF startswith(spec[i], "ASN:")
    THEN Bind(split(spec[i], ":"), LAMBDA parts :
            IF Len(parts) < 2 THEN [ok |-> FALSE, res |-> res]
            ELSE Bind(int(parts[2]), LAMBDA asn :
                    IF ~asn.ok THEN [ok |-> FALSE, res |-> res]
                    ELSE Bind(res \o networks_for_asn(db, asn.val).ret.val,
                              LAMBDA res2 : expand(db, spec, i + 1, res2))))
    ELSE Bind(Append(res, spec[i]), LAMBDA res2 : expand(db, spec, i + 1, res2))

\* IPGuide.get_networks(spec) for a list of strings: the except clause turns
\* any exception into `return spec` (on self.database = None networks_for_asn
\* raises, and a list without ASN items comes back equal to spec).
get_networks(db, spec) ==
    IF db = Unloaded THEN [db |-> db, ret |-> Return(spec)]
    ELSE Bind(expand(db, spec, 1, <<>>), LAMBDA r :
            [db |-> db, ret |-> Return(IF r.ok THEN r.res ELSE spec)])

\* The five lookups by name.
Call(db, name, x) ==
    CASE name = "find_network"     -> find_network(db, x)
      [] name = "networks_for_asn" -> networks_for_asn(db, x)
      [] name = "find_asn"         -> find_asn(db, x)
      [] name = "find_country"     -> find_country(db, x)
      [] name = "get_networks"     -> get_networks(db, x)

-----------------------------------------------------------------------------
(* An IPGuide object: load_database, then the lookups *)

MaxRows == 2
MaxSpec == 1
MaxLoads == 2

Header == <<"network", "asn", "organization", "country">>

\* Rows of the csv file.  The last three make load_database raise: "abc" is no
\* integer, "1.2.3.4/24" has host bits set, and an empty line has no row[0].
Rows ==
    {Header,
     <<"1.2.3.0/24", "100", "ExampleOrg", "US">>,
     <<"1.2.3.128/25", "200", "SubOrg", "US">>,
     <<"10.1.0.0/16", "0", "Lab", "*">>,
     <<"5.6.7.0/24", "abc", "NoNumber", "US">>,
     <<"1.2.3.4/24", "100", "ExampleOrg", "US">>,
     <<>>}

\* Rows of the csv file of an object that is reloaded while it is read.
ReloadRows ==
    {Header,
     <<"1.2.3.0/24", "100", "ExampleOrg", "US">>,
     <<"10.1.0.0/16", "0", "Lab", "*">>,
     <<"5.6.7.0/24", "abc", "NoNumber", "US">>}

Addresses == {"1.2.3.200", "1.2.3.10", "10.1.2.3", "8.8.8.8", "bogus"}
Asns == {0, 100, 999}
Countries == {"US", "*", "XX"}
SpecItems == {"ASN:0", "ASN:100", "ASN:abc", "ASN:100:x", "8.8.8.8"}

SeqsUpTo(S, n) == UNION {[1..k -> S] : k \in 0..n}

\* The calls a client makes: <<name, argument>>
Finds ==
    ({"find_network"} \X Addresses) \cup ({"networks_for_asn"} \X Asns)
        \cup ({"find_asn"} \X Asns) \cup ({"find_country"} \X Countries)

\* The calls made by the reader that runs beside a reload
Reads ==
    {<<"find_network", "1.2.3.200">>, <<"networks_for_asn", 100>>,
     <<"find_asn", 0>>, <<"find_country", "US">>}

\* load_database called by __init__ (lines 90-92, 111), csv branch (line 133):
\* use_pickle is fixed, and the index is replaced by a fresh empty one before
\* the first row is read.  (A pickle left by an earlier process that is at
\* least as new as the csv holds what that process built from the same file.)
LoadStart ==
    /\ pc = "new"
    /\ old' = database
    /\ database' = EmptyIndex
    /\ file' = <<>>
    /\ frame' = Top
    /\ \E use \in BOOLEAN : pickle' = [use |-> use, data |-> Unloaded]
    /\ pc' = "loading"
    /\ loads' = loads + 1
    /\ op' = "load_database" /\ arg' = None /\ ret' = ReturnNone /\ mid' = FALSE
    /\ UNCHANGED <<tree, log>>

\* An exception leaves load_database: raised in the call made by __init__
\* (the first one), it leaves the object unconstructed.
Raised(n) == IF n = 1 THEN "failed" ELSE "raised"

\* __init__ lines 93-96, load_database lines 128-129: there is no csv file
\* (and none could be downloaded); FileNotFoundError leaves __init__.
InitMissing ==
    /\ pc = "new"
    /\ pc' = "failed"
    /\ old' = database
    /\ op' = "load_database" /\ arg' = None /\ ret' = Raise("FileNotFoundError")
    /\ mid' = FALSE
    /\ UNCHANGED <<tree, log, database, file, frame, pickle, loads>>

\* load_database called again on the object, lines 128-129: the csv file is
\* gone; FileNotFoundError is raised and the index is left as it was.
LoadMissing ==
    /\ pc \in {"loaded", "raised"}
    /\ pc' = "raised"
    /\ old' = database
    /\ op' = "load_database" /\ arg' = None /\ ret' = Raise("FileNotFoundError")
    /\ mid' = FALSE
    /\ UNCHANGED <<tree, log, database, file, frame, pickle, loads>>

\* load_database called again on the object (a refresh), csv branch (lines
\* 131-135): no pickle is kept, or the csv file is newer than the pickle.
Reload ==
    /\ pc \in {"loaded", "raised"}
    /\ loads < MaxLoads
    /\ old' = database
    /\ database' = EmptyIndex
    /\ file' = <<>>
    /\ frame' = Top
    /\ pickle' = [pickle EXCEPT !.data = Unloaded]
    /\ pc' = "loading"
    /\ loads' = loads + 1
    /\ op' = "load_database" /\ arg' = None /\ ret' = ReturnNone /\ mid' = FALSE
    /\ UNCHANGED <<tree, log>>

\* One whole iteration of the loop of load_database (lines 139-167) over the
\* next row of the file, on an object no other thread uses; an exception
\* leaves the loop and the method.
LoadRow(row) ==
    /\ pc = "loading" /\ frame = Top
    /\ Len(file) < MaxRows
    /\ \E r \in {loadRow(database, row)} :
          /\ database' = r.db
          /\ pc' = IF r.raised THEN Raised(loads) ELSE "loading"
    /\ file' = Append(file, row)
    /\ UNCHANGED <<tree, log, frame, pickle, loads, old, op, arg, ret, mid>>

\* The iteration statement by statement, as the threads that read the object
\* during a reload see it.  Lines 139-140 and 156: the next row is taken; the
\* index is not written.
NextRow(row) ==
    /\ pc = "loading" /\ frame.line = 139
    /\ Len(file) < MaxRows
    /\ file' = Append(file, row)
    /\ \E f \in {fetch(row)} :
          /\ pc' = IF f.raised THEN Raised(loads) ELSE "loading"
          /\ frame' = IF f.raised THEN Top
                       ELSE IF f.header THEN [line |-> 147, row |-> row, asn |-> 0, i |-> 1]
                       ELSE [line |-> 157, row |-> row, asn |-> f.asn, i |-> 0]
    /\ UNCHANGED <<tree, log, database, pickle, loads, old, op, arg, ret, mid>>

\* Line 147, once for each of the private ranges
SeedInsert ==
    /\ pc = "loading" /\ frame.line = 147
    /\ database' = seedInsert(database, frame.i)
    /\ frame' = IF frame.i < Len(private) THEN [frame EXCEPT !.i = @ + 1]
                 ELSE [frame EXCEPT !.line = 148]
    /\ UNCHANGED <<tree, log, file, pickle, pc, loads, old, op, arg, ret, mid>>

\* Lines 148-152
SeedAsn ==
    /\ pc = "loading" /\ frame.line = 148
    /\ database' = seedAsn(database)
    /\ frame' = [frame EXCEPT !.line = 153]
    /\ UNCHANGED <<tree, log, file, pickle, pc, loads, old, op, arg, ret, mid>>

\* Lines 153-154: the last statement of the iteration of a header row
SeedCountry ==
    /\ pc = "loading" /\ frame.line = 153
    /\ database' = seedCountry(database)
    /\ frame' = Top
    /\ UNCHANGED <<tree, log, file, pickle, pc, loads, old, op, arg, ret, mid>>

\* Line 157
RowInsert ==
    /\ pc = "loading" /\ frame.line = 157
    /\ \E r \in {rowInsert(database, frame.row, frame.asn)} :
          /\ database' = r.db
          /\ pc' = IF r.raised THEN Raised(loads) ELSE "loading"
          /\ frame' = IF r.raised THEN Top ELSE [frame EXCEPT !.line = 158]
    /\ UNCHANGED <<tree, log, file, pickle, loads, old, op, arg, ret, mid>>

\* Lines 158-163
AsnEntry ==
    /\ pc = "loading" /\ frame.line = 158
    /\ database' = asnEntry(database, frame.row, frame.asn)
    /\ frame' = [frame EXCEPT !.line = 164]
    /\ UNCHANGED <<tree, log, file, pickle, pc, loads, old, op, arg, ret, mid>>

\* Line 164
AsnAppend ==
    /\ pc = "loading" /\ frame.line = 164
    /\ database' = asnAppend(database, frame.row, frame.asn)
    /\ frame' = [frame EXCEPT !.line = 165]
    /\ UNCHANGED <<tree, log, file, pickle, pc, loads, old, op, arg, ret, mid>>

\* Lines 165-166
CountryEntry ==
    /\ pc = "loading" /\ frame.line = 165
    /\ database' = countryEntry(database, frame.row)
    /\ frame' = [frame EXCEPT !.line = 167]
    /\ UNCHANGED <<tree, log, file, pickle, pc, loads, old, op, arg, ret, mid>>

\* Line 167: the last statement of the iteration of a data row
CountryAppend ==
    /\ pc = "loading" /\ frame.line = 167
    /\ database' = countryAppend(database, frame.row, frame.asn)
    /\ frame' = Top
    /\ UNCHANGED <<tree, log, file, pickle, pc, loads, old, op, arg, ret, mid>>

\* The end of the file: the loop is over, the index is pickled when a pickle
\* is kept (lines 169-171), and load_database returns.
LoadEnd ==
    /\ pc = "loading" /\ frame.line = 139
    /\ pc' = "loaded"
    /\ pickle' = IF pickle.use THEN [pickle EXCEPT !.data = database] ELSE pickle
    /\ UNCHANGED <<tree, log, database, file, frame, loads, old, op, arg, ret, mid>>

\* load_database called again, pickle branch (lines 173-176): the pickle is at
\* least as new as the csv file, and the index is assigned what it holds.
LoadPickle ==
    /\ pc \in {"loaded", "raised"}
    /\ loads < MaxLoads
    /\ pickle.use /\ pickle.data # Unloaded
    /\ old' = database
    /\ database' = pickle.data
    /\ pc' = "loaded"
    /\ loads' = loads + 1
    /\ op' = "load_database" /\ arg' = None /\ ret' = ReturnNone /\ mid' = FALSE
    /\ UNCHANGED <<tree, log, file, frame, pickle>>

\* A lookup on the object while no load_database is in progress: the last
\* one returned, or it raised and left the index it had got to.
Lookup(name, x) ==
    /\ pc \in {"loaded", "raised"}
    /\ \E r \in {Call(database, name, x)} :
          /\ database' = r.db
          /\ ret' = r.ret
    /\ op' = name /\ arg' = x /\ mid' = FALSE
    /\ UNCHANGED <<tree, log, file, frame, pickle, pc, loads, old>>

\* A lookup by a reader of the object while a reload is in progress, between
\* any two statements of the loop.
Read(name, x) ==
    /\ pc = "loading" /\ loads > 1
    /\ \E r \in {Call(database, name, x)} :
          /\ database' = r.db
          /\ ret' = r.ret
    /\ op' = name /\ arg' = x /\ mid' = TRUE
    /\ UNCHANGED <<tree, log, file, frame, pickle, pc, loads, old>>

\* One object, used by one thread.
NextGuide ==
    \/ InitMissing
    \/ LoadStart
    \/ \E row \in Rows : LoadRow(row)
    \/ LoadEnd
    \/ \E c \in Finds : Lookup(c[1], c[2])
    \/ \E spec \in SeqsUpTo(SpecItems, MaxSpec) : Lookup("get_networks", spec)

SpecGuide == Init /\ [][NextGuide]_vars

\* One object reloaded by one thread and read by another.
NextReload ==
    \/ InitMissing
    \/ LoadStart
    \/ LoadMissing
    \/ Reload
    \/ LoadPickle
    \/ \E row \in ReloadRows : NextRow(row)
    \/ SeedInsert
    \/ SeedAsn
    \/ SeedCountry
    \/ RowInsert
    \/ AsnEntry
    \/ AsnAppend
    \/ CountryEntry
    \/ CountryAppend
    \/ LoadEnd
    \/ \E c \in Reads : Read(c[1], c[2])
    \/ \E c \in Reads : Lookup(c[1], c[2])

SpecReload == Init /\ [][NextReload]_vars

-----------------------------------------------------------------------------
(* What the properties of the trie are stated with: containment of addresses *)
(* in networks, computed on the groups of the addresses, not on the trie.    *)

\* The first k bits of the 128-bit addresses a and b (8 groups each) agree.
SamePrefix(a, b, k) ==
    \A i \in 1..8 :
        LET first == (i-1) * 16
        IN  IF k >= first + 16 THEN a[i] = b[i]
            ELSE IF k <= first THEN TRUE
            ELSE a[i] \div Pow2(first + 16 - k) = b[i] \div Pow2(first + 16 - k)

IsV4(text) == ip_network(text).ok /\ ip_network(text).version = 4
IsV6(text) == ip_network(text).ok /\ ip_network(text).version = 6

\* text is a single well-formed address (a full-length prefix)
IsAddress(text) == embed(text).ok /\ embed(text).prefixlen = 128

PrefixLen(network) == embed(network).prefixlen

\* Every address of network m is an address of network n.
Contains(n, m) ==
    /\ embed(n).ok /\ embed(m).ok
    /\ PrefixLen(n) <= PrefixLen(m)
    /\ SamePrefix(embed(n).addr, embed(m).addr, PrefixLen(n))

Overlaps(n, m) == Contains(n, m) \/ Contains(m, n)

\* The IPv4-mapped block every IPv4 network is embedded into.
MappedBlock == "::ffff:0:0/96"

\* Indices of the inserts whose network contains the address a.
Covering(a) == {i \in 1..Len(log) : Contains(log[i][1], a)}

\* Among them, the last insert of the longest prefix.
MostSpecific(a) ==
    CHOOSE i \in Covering(a) :
        \A j \in Covering(a) :
            \/ PrefixLen(log[j][1]) < PrefixLen(log[i][1])
            \/ (PrefixLen(log[j][1]) = PrefixLen(log[i][1]) /\ j <= i)

\* The last insert made for the same prefix as insert i.
LastFor(i) ==
    CHOOSE j \in 1..Len(log) :
        /\ embed(log[j][1]) = embed(log[i][1])
        /\ \A k \in 1..Len(log) : embed(log[k][1]) = embed(log[i][1]) => k <= j

\* C1 -- longest-prefix match: a search for an address that some inserted
\* network contains (host prefixes /128 and IPv4 /32 included) returns the
\* record of the inserted network of greatest prefix length containing it.
C1_LongestPrefixMatch ==
    (op = "search" /\ IsAddress(arg) /\ Covering(arg) # {})
        => (ret.kind = "value" /\ ret.val = log[MostSpecific(arg)][2])

\* C2 as claimed -- no cross-family match: when every inserted network is an
\* IPv6 network, of any prefix length, a search for an IPv4 address returns
\* absent.
C2_NoCrossFamilyAnyLength ==
    (op = "search" /\ IsV4(arg) /\ \A i \in 1..Len(log) : IsV6(log[i][1]))
        => ret.kind = "none"

\* C2 amended -- when every inserted network is an IPv6 network that neither
\* contains nor lies within the IPv4-mapped block ::ffff:0:0/96, a search for
\* an IPv4 address returns absent.
C2_NoCrossFamilyOutsideMapped ==
    (/\ op = "search" /\ IsV4(arg)
     /\ \A i \in 1..Len(log) : IsV6(log[i][1]) /\ ~Overlaps(log[i][1], MappedBlock))
        => ret.kind = "none"

\* An IPv4 address was searched in a trie holding IPv6 networks only, all
\* outside the mapped block, and nothing was found.
C2_Witness ==
    /\ op = "search" /\ IsV4(arg)
    /\ \E i \in 1..Len(log) : log[i][1] = "::/96"
    /\ \E i \in 1..Len(log) : log[i][1] = "::1/128"
    /\ \A i \in 1..Len(log) : IsV6(log[i][1]) /\ ~Overlaps(log[i][1], MappedBlock)
    /\ ret.kind = "none"

\* C9 -- last write wins on an identical prefix: the node of every inserted
\* prefix holds the record of the last insert made for that prefix (inserts for
\* other prefixes leave it alone), and a search for an address of an inserted
\* network, no more specific network being stored, returns that record.
C9_LastWriteWins ==
    /\ \A i \in 1..Len(log) : tree[prefix(embed(log[i][1]))] = log[LastFor(i)][2]
    /\ \A i \in 1..Len(log) :
          (/\ op = "search" /\ IsAddress(arg) /\ Contains(log[i][1], arg)
           /\ \A j \in Covering(arg) : PrefixLen(log[j][1]) <= PrefixLen(log[i][1]))
              => (ret.kind = "value" /\ ret.val = log[LastFor(i)][2])

\* The part of C9 about the nodes alone.
C9_NodeHoldsLastRecord ==
    \A i \in 1..Len(log) : tree[prefix(embed(log[i][1]))] = log[LastFor(i)][2]

\* The part of C9 about lookups in networks shorter than a full-length prefix.
C9_LastWriteWinsOnShorterPrefixes ==
    \A i \in 1..Len(log) :
        (/\ op = "search" /\ IsAddress(arg) /\ Contains(log[i][1], arg)
         /\ PrefixLen(log[i][1]) < 128
         /\ \A j \in Covering(arg) : PrefixLen(log[j][1]) <= PrefixLen(log[i][1]))
            => (ret.kind = "value" /\ ret.val = log[LastFor(i)][2])

-----------------------------------------------------------------------------
(* What the properties of the index are stated with: the records of the file *)

IsHeader(row) == row[1] = "network"

\* The records load_database has observed in the rows f, in order, as
\* <<network, asn, country>>: the seed records where it met a header row, the
\* record of every data row.
RECURSIVE Observed(_)
Observed(f) ==
    IF f = <<>> THEN <<>>
    ELSE Observed(SubSeq(f, 1, Len(f) - 1))
         \o (IF IsHeader(f[Len(f)]) THEN [i \in 1..Len(private) |-> <<private[i], 0, "*">>]
             ELSE << <<f[Len(f)][1], int(f[Len(f)][2]).val, f[Len(f)][4]>> >>)

\* The same for the country map, to which the seeding counts as one
\* observation of ASN 0 with country '*'.
RECURSIVE ObservedCountries(_)
ObservedCountries(f) ==
    IF f = <<>> THEN <<>>
    ELSE ObservedCountries(SubSeq(f, 1, Len(f) - 1))
         \o (IF IsHeader(f[Len(f)]) THEN << <<"", 0, "*">> >>
             ELSE << <<f[Len(f)][1], int(f[Len(f)][2]).val, f[Len(f)][4]>> >>)

\* The networks of the records with ASN a, and the ASNs of the records with
\* country c, in the order of the records and with duplicates.
RECURSIVE NetworksOf(_, _)
NetworksOf(recs, a) ==
    IF recs = <<>> THEN <<>>
    ELSE NetworksOf(SubSeq(recs, 1, Len(recs) - 1), a)
         \o (IF recs[Len(recs)][2] = a THEN <<recs[Len(recs)][1]>> ELSE <<>>)

RECURSIVE AsnsOf(_, _)
AsnsOf(recs, c) ==
    IF recs = <<>> THEN <<>>
    ELSE AsnsOf(SubSeq(recs, 1, Len(recs) - 1), c)
         \o (IF recs[Len(recs)][3] = c THEN <<recs[Len(recs)][2]>> ELSE <<>>)

Elements(q) == {q[i] : i \in 1..Len(q)}

SeenAsns == {r[2] : r \in Elements(Observed(file))}
SeenCountries == {r[3] : r \in Elements(Observed(file))}

\* Two results of a call are the same.
SameRet(a, b) == a.kind = b.kind /\ (a.kind = "none" \/ a.val = b.val)

\* C3 -- load is all-or-nothing: when load_database raises (a row with a
\* non-integer ASN or an unparseable network), the object's database is what
\* it was before the call; nothing of the failed pass is left in it.
C3_FailedLoadLeavesNothing ==
    (/\ pc \in {"raised", "failed"}
     /\ Len(file) > 0
     /\ Len(file[Len(file)]) >= 4
     /\ ~int(file[Len(file)][2]).ok \/ ~ip_network(file[Len(file)][1]).ok)
        => database = old

\* C4 -- private-range seeding is unconditional: after load_database has
\* completed, whatever the rows, find_asn(0) returns the 'Locally routed
\* network' entry listing 10.0.0.0/8 and 127.0.0.0/8, and no data row was
\* processed before the seeding.
C4_SeedingUnconditional ==
    pc = "loaded" =>
        /\ find_asn(database, 0).ret.kind = "value"
        /\ find_asn(database, 0).ret.val.name = "Locally routed network"
        /\ {"10.0.0.0/8", "127.0.0.0/8"} \subseteq Elements(find_asn(database, 0).ret.val.networks)
        /\ \A i \in 1..Len(file) : ~IsHeader(file[i]) => \E j \in 1..(i-1) : IsHeader(file[j])

\* C5 -- the secondary indexes mirror the record stream: after load_database,
\* every record in the trie with ASN a has its network in byASN[a].networks,
\* networks_for_asn(a) lists the networks of the records observed with ASN a,
\* in order and with duplicates, and find_country(c) lists the ASN of every
\* record observed with country c, in order and with duplicates.
C5_IndexesMirrorRecords ==
    pc = "loaded" =>
        /\ \A p \in DOMAIN database.network :
              database.network[p] # None =>
                 database.network[p][1] \in
                    Elements(networks_for_asn(database, database.network[p][2]).ret.val)
        /\ \A a \in SeenAsns \cup DOMAIN database.asn :
              networks_for_asn(database, a).ret.val = NetworksOf(Observed(file), a)
        /\ \A c \in SeenCountries \cup DOMAIN database.country :
              find_country(database, c).ret.val = AsnsOf(ObservedCountries(file), c)

\* An item of the form 'ASN:<n>', n a decimal number
IsAsnItem(s) == startswith(s, "ASN:") /\ IsNumeral(SubSeq(s, 5, Len(s)), 10)

\* An item that starts like an ASN item and is none
IsMalformedItem(s) == startswith(s, "ASN:") /\ ~IsAsnItem(s)

\* The list the items of spec stand for, each ASN item replaced by the
\* networks of its ASN
RECURSIVE Resolved(_, _)
Resolved(db, spec) ==
    IF spec = <<>> THEN <<>>
    ELSE (IF IsAsnItem(Head(spec))
          THEN networks_for_asn(db, NumeralVal(SubSeq(Head(spec), 5, Len(Head(spec))), 10)).ret.val
          ELSE <<Head(spec)>>)
         \o Resolved(db, Tail(spec))

\* C6 -- get_networks never raises; it returns the items in order, each item
\* 'ASN:<n>' replaced by networks_for_asn(n) and every other item as it is,
\* or the list it was given when an item fails to parse.
C6_ResolveSpecifiers ==
    op = "get_networks" =>
        /\ ret.kind = "value"
        /\ ret.val = IF \E i \in 1..Len(arg) : IsMalformedItem(arg[i])
                     THEN arg ELSE Resolved(database, arg)

\* C6 for lists whose items have at most one colon.
C6_ResolveSimpleItems ==
    (op = "get_networks" /\ \A i \in 1..Len(arg) : Len(split(arg[i], ":")) <= 2) =>
        /\ ret.kind = "value"
        /\ ret.val = IF \E i \in 1..Len(arg) : IsMalformedItem(arg[i])
                     THEN arg ELSE Resolved(database, arg)

\* C7 -- atomic publication on reload: what a reader was answered while a
\* reload was in progress is what the complete old index or the complete new
\* index answers.
C7_ReaderSeesOldOrNew ==
    (pc = "loaded" /\ mid) =>
        \/ SameRet(ret, Call(old, op, arg).ret)
        \/ SameRet(ret, Call(database, op, arg).ret)

LookupNames ==
    {"find_network", "networks_for_asn", "find_asn", "find_country", "get_networks"}

\* C8 -- lookups are read-only: once load has completed, a lookup (key found
\* or not, input valid or not) leaves the trie, its nodes and records, and the
\* two maps as they were.
C8_LookupsReadOnly ==
    [][(pc = "loaded" /\ op' \in LookupNames) => database' = database]_vars

\* A lookup with invalid input was made on a loaded, seeded index holding a
\* record of the file, and raised.
C8_Witness ==
    /\ pc = "loaded" /\ Len(file) = MaxRows /\ IsHeader(file[1])
    /\ 100 \in DOMAIN database.asn
    /\ op = "find_network" /\ arg = "bogus" /\ ret.kind = "raise"

\* C10 -- not-found is a value: find_network of a well-formed address that no
\* inserted network contains returns None, find_asn of an unknown ASN returns
\* None, networks_for_asn and find_country of an unknown key return an empty
\* list; none of them raises.
C10_NotFoundIsAValue ==
    /\ (/\ op = "find_network" /\ embed(arg).ok
        /\ \A r \in Elements(Observed(file)) : ~Contains(r[1], arg))
           => ret.kind = "none"
    /\ (op = "find_asn" /\ arg \notin SeenAsns) => ret.kind = "none"
    /\ (op = "networks_for_asn" /\ arg \notin SeenAsns) => (ret.kind = "value" /\ ret.val = <<>>)
    /\ (op = "find_country" /\ arg \notin SeenCountries) => (ret.kind = "value" /\ ret.val = <<>>)

\* An address outside every network of a seeded index was looked up, and
\* nothing was found.
C10_Witness ==
    /\ pc = "loaded" /\ Len(file) = MaxRows /\ IsHeader(file[1])
    /\ op = "find_network" /\ arg = "8.8.8.8"
    /\ \A r \in Elements(Observed(file)) : ~Contains(r[1], arg)
    /\ ret.kind = "none"

====
